---------------------------- MODULE Spec2Model ----------------------------
(***************************************************************************)
(* A model of notion_portfolio_updater.py: one run of main() against a     *)
(* Notion database (the record store) and a price provider (yfinance).     *)
(*                                                                         *)
(* Values.  A Python Optional[float] is a pair <<n, d>> (the rational n/d  *)
(* in lowest terms, d > 0) or None == <<>>.  A denominator 0 encodes the   *)
(* non-finite floats: <<0,0>> is NaN, <<1,0>> and <<-1,0>> are +inf/-inf.  *)
(* Arithmetic is exact rational arithmetic, not IEEE rounding.  A Python   *)
(* str is a sequence of one-character strings; "" is <<>>.                 *)
(***************************************************************************)
EXTENDS Integers, Sequences, FiniteSets, TLC

VARIABLES
    NOTION_TOKEN,         \* os.getenv("NOTION_TOKEN"): Unset or a string
    DATABASE_ID,          \* os.getenv("NOTION_DATABASE_ID"): Unset or a string
    FX_RATE,              \* float(os.getenv("FX_RATE", "1.0"))
    UPDATE_ONLY_MISSING,  \* os.getenv("UPDATE_ONLY_MISSING") == "true"
    db,                   \* the store: the database's pages, in enumeration order
    pageSize,             \* the store: how many pages one query response carries
    pc,                   \* where main() is
    exitMsg,              \* the settings named by the SystemExit of require_env
    cursor,               \* query_all_pages: cursor
    pages,                \* query_all_pages / main: pages
    idx,                  \* main: position of the for loop in pages (1-based)
    ticker,               \* main: ticker of the record being processed
    price,                \* main: price returned by fetch_price
    updated,              \* main: counters
    skipped,
    failed,
    clock,                \* the wall clock read by now_iso()
    queryLog,             \* history: the start_cursor of every databases.query call
    visitLog,             \* history: [id, outcome] of every loop iteration, in order
    providerLog,          \* history: every request made to the price provider
    writeLog,             \* history: every pages.update call and whether it was accepted
    calc,                 \* the last compute_metrics call: arguments and result
    probe,                \* the last field accessor call: arguments and result
    prior                 \* the store and the histories at the end of the run before this one

vars == << NOTION_TOKEN, DATABASE_ID, FX_RATE, UPDATE_ONLY_MISSING, db, pageSize,
           pc, exitMsg, cursor, pages, idx, ticker, price, updated, skipped,
           failed, clock, queryLog, visitLog, providerLog, writeLog, calc, probe, prior >>

config == << NOTION_TOKEN, DATABASE_ID, FX_RATE, UPDATE_ONLY_MISSING >>
aside == << probe, prior >>
locals == << cursor, pages, idx, ticker, price, updated, skipped, failed >>

-----------------------------------------------------------------------------
(* Bounds of the model *)

MaxRecords == 2     \* the database holds at most this many pages

-----------------------------------------------------------------------------
(* Python values *)

None == << >>

\* os.getenv(name) of a variable that is not set (None, where the others are str)
Unset == "<unset>"

PROP_TITLE == "Name"
PROP_TICKER == "Ticker"
PROP_SHARES == "Shares"
PROP_AVG_COST == "Avg Cost"
PROP_PRICE == "Price"
PROP_VALUE == "Value"
PROP_PL_PCT == "P/L %"
PROP_LAST_UPDATED == "Last Updated"
PROP_NOTES == "Notes"

Abs(n) == IF n < 0 THEN -n ELSE n

RECURSIVE Gcd(_, _)
Gcd(a, b) == IF b = 0 THEN a ELSE Gcd(b, a % b)

\* The float n/d, d # 0, in lowest terms with a positive denominator.
Rat(n, d) ==
    LET g == Gcd(Abs(n), Abs(d))
        s == IF d < 0 THEN -1 ELSE 1
    IN  << (s * n) \div g, (s * d) \div g >>

Num(n) == << n, 1 >>
NaN == << 0, 0 >>
IsNaN(x) == x = NaN
IsFinite(x) == x # None /\ x[2] # 0

FMul(a, b) == Rat(a[1] * b[1], a[2] * b[2])
FDiv(a, b) == Rat(a[1] * b[2], a[2] * b[1])
FSub(a, b) == Rat(a[1] * b[2] - b[1] * a[2], a[2] * b[2])

\* str.strip()
Whitespace == { " ", "\t", "\n" }

RECURSIVE lstrip(_)
lstrip(s) == IF s # << >> /\ Head(s) \in Whitespace THEN lstrip(Tail(s)) ELSE s

RECURSIVE rstrip(_)
rstrip(s) ==
    IF s # << >> /\ s[Len(s)] \in Whitespace
    THEN rstrip(SubSeq(s, 1, Len(s) - 1))
    ELSE s

strip(s) == rstrip(lstrip(s))

\* JSON null where a list is expected, kept apart from the empty list << >>
Null == << [ null |-> TRUE ] >>

\* "".join([t.get("plain_text", "") for t in rt])
RECURSIVE join_plain_text(_)
join_plain_text(rt) ==
    IF rt = << >> THEN << >>
    ELSE (IF "plain_text" \in DOMAIN Head(rt) THEN Head(rt).plain_text ELSE << >>)
         \o join_plain_text(Tail(rt))

-----------------------------------------------------------------------------
(* The pure functions of the script *)

\* require_env without the check of DATABASE_ID
MissingEnv_token_only(token, dbid) ==
    IF token = Unset \/ token = "" THEN << "NOTION_TOKEN" >> ELSE << >>

\* The names require_env puts in its SystemExit message; << >> when none is
\* missing.  `not X` holds of None and of the empty string.
MissingEnv(token, dbid) ==
    (IF token = Unset \/ token = "" THEN << "NOTION_TOKEN" >> ELSE << >>)
    \o (IF dbid = Unset \/ dbid = "" THEN << "NOTION_DATABASE_ID" >> ELSE << >>)

safe_num(x) ==
    IF x = None THEN None
    ELSE IF IsNaN(x) THEN None
    ELSE x

\* Whether get_prop_number(page, prop) raises: p["type"] is a KeyError on a
\* non-empty property without "type"; safe_num catches what float() raises.
get_prop_number_raises(page, prop) ==
    /\ prop \in DOMAIN page.properties
    /\ page.properties[prop] # None
    /\ "type" \notin DOMAIN page.properties[prop]

\* get_prop_number reading Price where Avg Cost is asked for
get_prop_number_cost_from_price(page, prop) ==
    LET q == IF prop = PROP_AVG_COST THEN PROP_PRICE ELSE prop
    IN  IF q \notin DOMAIN page.properties THEN None
        ELSE LET p == page.properties[q]
             IN  IF p = None \/ p.type # "number" THEN None
                 ELSE safe_num(IF "number" \in DOMAIN p THEN p.number ELSE None)

get_prop_number(page, prop) ==
    IF prop \notin DOMAIN page.properties THEN None
    ELSE LET p == page.properties[prop]
         IN  IF p = None \/ p.type # "number" THEN None
             ELSE safe_num(IF "number" \in DOMAIN p THEN p.number ELSE None)

\* get_prop_rich_text without the .strip() calls
get_prop_rich_text_nostrip(page, prop) ==
    IF prop \notin DOMAIN page.properties THEN << >>
    ELSE LET p == page.properties[prop]
         IN  IF p = None THEN << >>
             ELSE IF p.type = "rich_text"
             THEN join_plain_text(IF "rich_text" \in DOMAIN p THEN p.rich_text ELSE << >>)
             ELSE IF p.type = "title"
             THEN join_plain_text(IF "title" \in DOMAIN p THEN p.title ELSE << >>)
             ELSE << >>

\* Whether get_prop_rich_text(page, prop) raises: p["type"] is a KeyError on
\* a non-empty property without "type"; p.get("rich_text", []) is None when
\* the key is there with null, and iterating None is a TypeError.
get_prop_rich_text_raises(page, prop) ==
    /\ prop \in DOMAIN page.properties
    /\ LET p == page.properties[prop]
       IN  /\ p # None
           /\ \/ "type" \notin DOMAIN p
              \/ /\ p.type = "rich_text"
                 /\ "rich_text" \in DOMAIN p
                 /\ p.rich_text = Null
              \/ /\ p.type = "title"
                 /\ "title" \in DOMAIN p
                 /\ p.title = Null

get_prop_rich_text(page, prop) ==
    IF prop \notin DOMAIN page.properties THEN << >>
    ELSE LET p == page.properties[prop]
         IN  IF p = None THEN << >>
             ELSE IF p.type = "rich_text"
             THEN strip(join_plain_text(IF "rich_text" \in DOMAIN p THEN p.rich_text ELSE << >>))
             ELSE IF p.type = "title"
             THEN strip(join_plain_text(IF "title" \in DOMAIN p THEN p.title ELSE << >>))
             ELSE << >>

notion_number(value) == [ number |-> IF value # None THEN value ELSE None ]

notion_date(iso) == [ date |-> [ start |-> iso ] ]

\* compute_metrics with `price / avg_cost * 100.0` for the percentage
compute_metrics_ratio(shares, avg_cost, p) ==
    IF shares = None \/ p = None THEN << None, None >>
    ELSE LET value == FMul(shares, p)
             pl_pct == IF avg_cost # None /\ avg_cost # Num(0)
                       THEN FMul(FDiv(p, avg_cost), Num(100))
                       ELSE None
         IN  << value, pl_pct >>

\* compute_metrics with the avg_cost guard put in front of the value too
compute_metrics_guarded(shares, avg_cost, p) ==
    IF shares = None \/ p = None \/ avg_cost = None \/ avg_cost = Num(0)
    THEN << None, None >>
    ELSE << FMul(shares, p), FMul(FSub(FDiv(p, avg_cost), Num(1)), Num(100)) >>

\* compute_metrics returns the pair (value, pl_pct).
compute_metrics(shares, avg_cost, p) ==
    IF shares = None \/ p = None THEN << None, None >>
    ELSE LET value == FMul(shares, p)
             pl_pct == IF avg_cost # None /\ avg_cost # Num(0)
                       THEN FMul(FSub(FDiv(p, avg_cost), Num(1)), Num(100))
                       ELSE None
         IN  << value, pl_pct >>

-----------------------------------------------------------------------------
(* The record store (Notion) *)

Min(a, b) == IF a < b THEN a ELSE b

Text(chars) == [ plain_text |-> chars ]
RichText(frags) == [ type |-> "rich_text", rich_text |-> frags ]
Title(frags) == [ type |-> "title", title |-> frags ]
Number(v) == [ type |-> "number", number |-> v ]
Date(d) == [ type |-> "date", date |-> d ]

\* A page's property bag.  The output fields are what an earlier run left:
\* nothing where there is no price, the metrics of the old price otherwise,
\* stamped at time 0 (the run's clock starts after it).
Holding(props, shares, avg_cost, oldPrice) ==
    LET m == compute_metrics(shares, avg_cost, oldPrice)
    IN  props
        @@ (PROP_TITLE :> Title(<< Text(<< "H" >>) >>))
        @@ (PROP_SHARES :> Number(shares))
        @@ (PROP_AVG_COST :> Number(avg_cost))
        @@ (PROP_PRICE :> Number(oldPrice))
        @@ (PROP_VALUE :> Number(m[1]))
        @@ (PROP_PL_PCT :> Number(m[2]))
        @@ (PROP_LAST_UPDATED :> Date([ start |-> 0 ]))

TickerA == PROP_TICKER :> RichText(<< Text(<< " ", "A" >>), Text(<< " " >>) >>)
TickerB == PROP_TICKER :> RichText(<< Text(<< "B" >>) >>)
TickerBlank == PROP_TICKER :> RichText(<< Text(<< " " >>), Text(<< "\t" >>) >>)
NoTickerProp == PROP_NOTES :> RichText(<< >>)

\* The rows a database is drawn from.
Holdings ==
    { Holding(TickerA, Num(10), Num(100), None),
      Holding(TickerA, Num(10), None, Num(90)),
      Holding(TickerB, None, Num(100), Num(90)),
      Holding(TickerB, Num(5), Num(0), None),
      Holding(TickerBlank, Num(10), Num(100), Num(90)),
      Holding(NoTickerProp, Num(10), Num(100), None) }

\* The store answers a query with one or two pages at a time.
PageSizes == { 1, 2 }

Databases ==
    UNION { { [ i \in 1..n |-> [ id |-> i, properties |-> f[i] ] ] :
              f \in [ 1..n -> Holdings ] } : n \in 0..MaxRecords }

\* databases.query: the page of results starting at the cursor, the has_more
\* flag and the cursor of the next page.  A cursor is << first index >>.
QueryResponse(d, size, cur) ==
    LET first == IF cur = None THEN 1 ELSE cur[1]
        last == Min(first + size - 1, Len(d))
    IN  [ results |-> SubSeq(d, first, last),
          has_more |-> last < Len(d),
          next_cursor |-> IF last < Len(d) THEN << last + 1 >> ELSE None ]

\* pages.update: the named properties of the page are replaced, every other
\* property and every other page is left as it is.
StoreUpdate(d, page_id, props) ==
    [ i \in DOMAIN d |->
        IF d[i].id # page_id THEN d[i]
        ELSE [ d[i] EXCEPT !.properties =
                 [ k \in DOMAIN @ \cup DOMAIN props |->
                     IF k \in DOMAIN props
                     THEN (IF "number" \in DOMAIN props[k]
                           THEN Number(props[k].number)
                           ELSE Date(props[k].date))
                     ELSE @[k] ] ] ]

-----------------------------------------------------------------------------
(* The price provider (yfinance) *)

\* The prices the provider quotes: a last price, and a last one-minute close.
LastPrices == { Num(110) }
ClosePrices == { Num(50) }

\* What tk.fast_info can do: raise, carry no usable last_price, or carry one.
FastInfoOutcomes == { << "raise" >>, << "none" >> } \cup { << "price", p >> : p \in LastPrices }

\* What tk.history(period="1d", interval="1m") can do: raise, return an
\* empty frame, or return a frame whose last Close is a price.
HistoryOutcomes == { << "raise" >>, << "empty" >> } \cup { << "price", p >> : p \in ClosePrices }

\* The requests fetch_price makes of the provider on behalf of record id, each
\* with the provider's answer: yf.Ticker(t).fast_info, then tk.history when
\* fast_info carried no usable last_price.
Request(id, t, via, answer) == [ id |-> id, ticker |-> t, via |-> via, answer |-> answer ]

\* fetch_price calling tk.history whatever fast_info gave
ProviderRequests_always_history(id, t, fast, hist) ==
    IF strip(t) = << >> THEN << >>
    ELSE << Request(id, strip(t), "fast_info", fast), Request(id, strip(t), "history", hist) >>

ProviderRequests(id, t, fast, hist) ==
    IF strip(t) = << >> THEN << >>
    ELSE IF fast[1] = "none"
    THEN << Request(id, strip(t), "fast_info", fast), Request(id, strip(t), "history", hist) >>
    ELSE << Request(id, strip(t), "fast_info", fast) >>

\* The value fetch_price returns.
fetch_price(t, fast, hist) ==
    IF strip(t) = << >> THEN None
    ELSE IF fast[1] = "raise" THEN None
    ELSE IF fast[1] = "price" THEN fast[2]
    ELSE IF hist[1] = "price" THEN hist[2]
    ELSE None

-----------------------------------------------------------------------------
(* main() *)

EnvValues == { Unset, "", "secret" }

NoCalc == [ called |-> FALSE, shares |-> None, avg_cost |-> None, price |-> None,
            value |-> None, pl_pct |-> None ]

NoProbe == [ called |-> FALSE ]

\* No run came before this one.
NoPrior == [ ran |-> FALSE ]

Init ==
    /\ NOTION_TOKEN \in EnvValues
    /\ DATABASE_ID \in EnvValues
    /\ FX_RATE \in { Num(1), Num(2) }
    /\ UPDATE_ONLY_MISSING \in BOOLEAN
    /\ db \in Databases
    /\ pageSize \in PageSizes
    /\ pc = "require_env"
    /\ exitMsg = << >>
    /\ cursor = None
    /\ pages = << >>
    /\ idx = 0
    /\ ticker = << >>
    /\ price = None
    /\ updated = 0
    /\ skipped = 0
    /\ failed = 0
    /\ clock = 1
    /\ queryLog = << >>
    /\ visitLog = << >>
    /\ providerLog = << >>
    /\ writeLog = << >>
    /\ calc = NoCalc
    /\ probe = NoProbe
    /\ prior = NoPrior

\* `pages = resp.get("results", [])` in place of pages.extend
Extend_assign(ps, results) == results

\* pages.extend(resp.get("results", []))
Extend(ps, results) == ps \o results

\* `if not resp.get("has_more"): break`
\* query_all_pages sending the cursor it started with on every turn
NextCursor_stale(resp) == None

\* query_all_pages leaving its loop after the first response
Drained_at_once(resp) == TRUE

Drained(resp) == ~ resp.has_more

\* `cursor = resp.get("next_cursor")`
NextCursor(resp) == resp.next_cursor

\* the `if price is None: ... continue` left out
PriceUnavailable_never(p) == FALSE

\* `if price is None` (main)
PriceUnavailable(p) == p = None

\* `if not ticker` (main)
NoTicker(t) == t = << >>

\* `existing_price is None` in place of `is not None`
SkipHasPrice_inverted(only_missing, existing_price) == only_missing /\ existing_price = None

\* `if UPDATE_ONLY_MISSING and existing_price is not None` (main)
SkipHasPrice(only_missing, existing_price) == only_missing /\ existing_price # None

\* the commented-out line `price_display = price * FX_RATE` put back
price_display_scaled(p, fx) == FMul(p, fx)

\* `price_display = price`: the scaling by FX_RATE is commented out.
price_display(p, fx) == p

\* update_page with PROP_SHARES where PROP_VALUE belongs
UpdateProps_over_shares(p, value, pl_pct, now) ==
    (PROP_PRICE :> notion_number(p))
    @@ (PROP_SHARES :> notion_number(value))
    @@ (PROP_PL_PCT :> notion_number(pl_pct))
    @@ (PROP_LAST_UPDATED :> notion_date(now))

\* update_page without PROP_LAST_UPDATED
UpdateProps_undated(p, value, pl_pct, now) ==
    (PROP_PRICE :> notion_number(p))
    @@ (PROP_VALUE :> notion_number(value))
    @@ (PROP_PL_PCT :> notion_number(pl_pct))

\* The props update_page sends to pages.update.
UpdateProps(p, value, pl_pct, now) ==
    (PROP_PRICE :> notion_number(p))
    @@ (PROP_VALUE :> notion_number(value))
    @@ (PROP_PL_PCT :> notion_number(pl_pct))
    @@ (PROP_LAST_UPDATED :> notion_date(now))

Visit(id, outcome) == [ id |-> id, outcome |-> outcome ]

\* require_env(), then Client(auth=NOTION_TOKEN) and the entry of query_all_pages.
require_env ==
    /\ pc = "require_env"
    /\ LET missing == MissingEnv(NOTION_TOKEN, DATABASE_ID)
       IN  IF missing # << >>
           THEN /\ pc' = "exit"
                /\ exitMsg' = missing
                /\ UNCHANGED << cursor, pages >>
           ELSE /\ pc' = "query"
                /\ cursor' = None
                /\ pages' = << >>
                /\ UNCHANGED exitMsg
    /\ UNCHANGED << aside, config, db, pageSize, idx, ticker, price, updated, skipped, failed,
                    clock, queryLog, visitLog, providerLog, writeLog, calc >>

\* One turn of the while loop of query_all_pages, the store answering; the
\* last turn returns to main, which sets the counters and starts the for loop.
query_page ==
    /\ pc = "query"
    /\ LET resp == QueryResponse(db, pageSize, cursor)
       IN  /\ queryLog' = Append(queryLog, cursor)
           /\ pages' = Extend(pages, resp.results)
           /\ IF Drained(resp)
              THEN /\ pc' = "loop"
                   /\ idx' = 1
                   /\ updated' = 0
                   /\ skipped' = 0
                   /\ failed' = 0
                   /\ UNCHANGED cursor
              ELSE /\ cursor' = NextCursor(resp)
                   /\ UNCHANGED << pc, idx, updated, skipped, failed >>
    /\ UNCHANGED << aside, config, db, pageSize, exitMsg, ticker, price, clock, visitLog,
                    providerLog, writeLog, calc >>

\* databases.query raises (network, permission, unknown database): nothing in
\* query_all_pages or main catches it.
query_raises ==
    /\ pc = "query"
    /\ queryLog' = Append(queryLog, cursor)
    /\ pc' = "raised"
    /\ UNCHANGED << aside, config, db, pageSize, exitMsg, cursor, pages, idx, ticker, price,
                    updated, skipped, failed, clock, visitLog, providerLog, writeLog, calc >>

\* The head of a loop iteration: the ticker and the two skips.
begin_record ==
    /\ pc = "loop"
    /\ idx <= Len(pages)
    /\ LET page == pages[idx]
           t == get_prop_rich_text(page, PROP_TICKER)
           existing_price == get_prop_number(page, PROP_PRICE)
       IN  IF NoTicker(t)
           THEN /\ skipped' = skipped + 1
                /\ visitLog' = Append(visitLog, Visit(page.id, "SKIP_NO_TICKER"))
                /\ idx' = idx + 1
                /\ UNCHANGED << pc, ticker >>
           ELSE IF SkipHasPrice(UPDATE_ONLY_MISSING, existing_price)
           THEN /\ skipped' = skipped + 1
                /\ visitLog' = Append(visitLog, Visit(page.id, "SKIP_HAS_PRICE"))
                /\ idx' = idx + 1
                /\ UNCHANGED << pc, ticker >>
           ELSE /\ ticker' = t
                /\ pc' = "fetch"
                /\ UNCHANGED << skipped, visitLog, idx >>
    /\ UNCHANGED << aside, config, db, pageSize, exitMsg, cursor, pages, price, updated, failed,
                    clock, queryLog, providerLog, writeLog, calc >>

\* A loop that asks the provider for the record after the current one while
\* the current one is still to be written
fetch_ahead ==
    /\ pc = "fetch"
    /\ \E fast \in FastInfoOutcomes, hist \in HistoryOutcomes :
         LET p == fetch_price(ticker, fast, hist)
             ahead == IF idx < Len(pages) THEN idx + 1 ELSE idx
         IN  /\ providerLog' = providerLog \o ProviderRequests(pages[ahead].id, ticker, fast, hist)
             /\ IF PriceUnavailable(p)
                THEN /\ failed' = failed + 1
                     /\ visitLog' = Append(visitLog, Visit(pages[idx].id, "PRICE_UNAVAILABLE"))
                     /\ idx' = idx + 1
                     /\ pc' = "loop"
                     /\ UNCHANGED price
                ELSE /\ price' = p
                     /\ pc' = "update"
                     /\ UNCHANGED << failed, visitLog, idx >>
    /\ UNCHANGED << aside, config, db, pageSize, exitMsg, cursor, pages, ticker, updated, skipped,
                    clock, queryLog, writeLog, calc >>

\* price = fetch_price(ticker), the provider answering, and `if price is None`.
fetch ==
    /\ pc = "fetch"
    /\ \E fast \in FastInfoOutcomes, hist \in HistoryOutcomes :
         LET p == fetch_price(ticker, fast, hist)
         IN  /\ providerLog' = providerLog \o ProviderRequests(pages[idx].id, ticker, fast, hist)
             /\ IF PriceUnavailable(p)
                THEN /\ failed' = failed + 1
                     /\ visitLog' = Append(visitLog, Visit(pages[idx].id, "PRICE_UNAVAILABLE"))
                     /\ idx' = idx + 1
                     /\ pc' = "loop"
                     /\ UNCHANGED price
                ELSE /\ price' = p
                     /\ pc' = "update"
                     /\ UNCHANGED << failed, visitLog, idx >>
    /\ UNCHANGED << aside, config, db, pageSize, exitMsg, cursor, pages, ticker, updated, skipped,
                    clock, queryLog, writeLog, calc >>

\* compute_metrics and update_page, the store accepting the write.
write_ok ==
    /\ pc = "update"
    /\ LET page == pages[idx]
           shares == get_prop_number(page, PROP_SHARES)
           avg_cost == get_prop_number(page, PROP_AVG_COST)
           shown == price_display(price, FX_RATE)
           m == compute_metrics(shares, avg_cost, shown)
           props == UpdateProps(shown, m[1], m[2], clock)
       IN  /\ calc' = [ called |-> TRUE, shares |-> shares, avg_cost |-> avg_cost,
                        price |-> shown, value |-> m[1], pl_pct |-> m[2] ]
           /\ db' = StoreUpdate(db, page.id, props)
           /\ writeLog' = Append(writeLog, [ page_id |-> page.id, props |-> props, ok |-> TRUE ])
           /\ updated' = updated + 1
           /\ visitLog' = Append(visitLog, Visit(page.id, "WRITE_OK"))
    /\ clock' = clock + 1
    /\ idx' = idx + 1
    /\ pc' = "loop"
    /\ price' = None
    /\ UNCHANGED << aside, config, pageSize, exitMsg, cursor, pages, ticker, skipped, failed,
                    queryLog, providerLog >>

\* update_page called outside any try: the exception of pages.update ends main
write_error_uncaught ==
    /\ pc = "update"
    /\ LET page == pages[idx]
           shares == get_prop_number(page, PROP_SHARES)
           avg_cost == get_prop_number(page, PROP_AVG_COST)
           shown == price_display(price, FX_RATE)
           m == compute_metrics(shares, avg_cost, shown)
           props == UpdateProps(shown, m[1], m[2], clock)
       IN  /\ calc' = [ called |-> TRUE, shares |-> shares, avg_cost |-> avg_cost,
                        price |-> shown, value |-> m[1], pl_pct |-> m[2] ]
           /\ writeLog' = Append(writeLog, [ page_id |-> page.id, props |-> props, ok |-> FALSE ])
    /\ clock' = clock + 1
    /\ pc' = "raised"
    /\ UNCHANGED << aside, config, db, pageSize, exitMsg, cursor, pages, idx, ticker, price, updated,
                    skipped, failed, queryLog, visitLog, providerLog >>

\* main with `updated += 1` put before the call of update_page
write_error_counted_twice ==
    /\ pc = "update"
    /\ LET page == pages[idx]
           shares == get_prop_number(page, PROP_SHARES)
           avg_cost == get_prop_number(page, PROP_AVG_COST)
           shown == price_display(price, FX_RATE)
           m == compute_metrics(shares, avg_cost, shown)
           props == UpdateProps(shown, m[1], m[2], clock)
       IN  /\ calc' = [ called |-> TRUE, shares |-> shares, avg_cost |-> avg_cost,
                        price |-> shown, value |-> m[1], pl_pct |-> m[2] ]
           /\ writeLog' = Append(writeLog, [ page_id |-> page.id, props |-> props, ok |-> FALSE ])
           /\ updated' = updated + 1
           /\ failed' = failed + 1
           /\ visitLog' = Append(visitLog, Visit(page.id, "WRITE_ERROR"))
    /\ clock' = clock + 1
    /\ idx' = idx + 1
    /\ pc' = "loop"
    /\ price' = None
    /\ UNCHANGED << aside, config, db, pageSize, exitMsg, cursor, pages, ticker, skipped,
                    queryLog, providerLog >>

\* compute_metrics and update_page, pages.update raising: `except Exception`.
write_error ==
    /\ pc = "update"
    /\ LET page == pages[idx]
           shares == get_prop_number(page, PROP_SHARES)
           avg_cost == get_prop_number(page, PROP_AVG_COST)
           shown == price_display(price, FX_RATE)
           m == compute_metrics(shares, avg_cost, shown)
           props == UpdateProps(shown, m[1], m[2], clock)
       IN  /\ calc' = [ called |-> TRUE, shares |-> shares, avg_cost |-> avg_cost,
                        price |-> shown, value |-> m[1], pl_pct |-> m[2] ]
           /\ writeLog' = Append(writeLog, [ page_id |-> page.id, props |-> props, ok |-> FALSE ])
           /\ failed' = failed + 1
           /\ visitLog' = Append(visitLog, Visit(page.id, "WRITE_ERROR"))
    /\ clock' = clock + 1
    /\ idx' = idx + 1
    /\ pc' = "loop"
    /\ price' = None
    /\ UNCHANGED << aside, config, db, pageSize, exitMsg, cursor, pages, ticker, updated, skipped,
                    queryLog, providerLog >>

\* The for loop is exhausted: the [DONE] line, and main returns.
finish ==
    /\ pc = "loop"
    /\ idx > Len(pages)
    /\ pc' = "done"
    /\ UNCHANGED << aside, config, db, pageSize, exitMsg, cursor, pages, idx, ticker, price,
                    updated, skipped, failed, clock, queryLog, visitLog, providerLog,
                    writeLog, calc >>

Next ==
    \/ require_env
    \/ query_page
    \/ query_raises
    \/ begin_record
    \/ fetch
    \/ write_ok
    \/ write_error
    \/ finish

Spec == Init /\ [][Next]_vars

-----------------------------------------------------------------------------
(* compute_metrics on its own: every combination of arguments *)

MetricInputs == { None, Num(0), Num(5), Num(10), Num(50), Num(100), Num(110), Rat(-5, 2) }

MetricsInit ==
    /\ NOTION_TOKEN = Unset
    /\ DATABASE_ID = Unset
    /\ FX_RATE = Num(1)
    /\ UPDATE_ONLY_MISSING = FALSE
    /\ db = << >>
    /\ pageSize = 1
    /\ pc = "metrics"
    /\ exitMsg = << >>
    /\ cursor = None
    /\ pages = << >>
    /\ idx = 0
    /\ ticker = << >>
    /\ price = None
    /\ updated = 0
    /\ skipped = 0
    /\ failed = 0
    /\ clock = 1
    /\ queryLog = << >>
    /\ visitLog = << >>
    /\ providerLog = << >>
    /\ writeLog = << >>
    /\ calc = NoCalc
    /\ probe = NoProbe
    /\ prior = NoPrior

metrics_call ==
    /\ pc = "metrics"
    /\ \E shares \in MetricInputs, avg_cost \in MetricInputs, p \in MetricInputs :
         LET m == compute_metrics(shares, avg_cost, p)
         IN  calc' = [ called |-> TRUE, shares |-> shares, avg_cost |-> avg_cost,
                       price |-> p, value |-> m[1], pl_pct |-> m[2] ]
    /\ UNCHANGED << aside, config, db, pageSize, pc, exitMsg, locals, clock, queryLog, visitLog,
                    providerLog, writeLog >>

SpecMetrics == MetricsInit /\ [][metrics_call]_vars

-----------------------------------------------------------------------------
(* The field accessors on their own: every shape of property *)

NumberPayloads ==
    { None, NaN, << 1, 0 >>, << -1, 0 >>, Num(0), Num(5), Num(110), Rat(-5, 2) }

Fragments == { Text(<< "A" >>), Text(<< " " >>), Text(<< >>), [ href |-> "x" ] }

FragmentLists ==
    { << >> } \cup { << f >> : f \in Fragments }
              \cup { << f, g >> : f \in Fragments, g \in Fragments }

\* What page["properties"] may hold under a name: null or {}, a typed
\* property with its payload, with a null payload or with no payload key, a
\* property of another type, and a property that states no type.
PropertyShapes ==
    { None }
    \cup { Number(v) : v \in NumberPayloads }
    \cup { RichText(l) : l \in FragmentLists \cup { Null } }
    \cup { Title(l) : l \in FragmentLists \cup { Null } }
    \cup { [ type |-> "number" ], [ type |-> "rich_text" ], [ type |-> "title" ] }
    \cup { Date([ start |-> 0 ]), [ type |-> "checkbox", checkbox |-> TRUE ] }
    \cup { [ number |-> Num(5) ], [ rich_text |-> << Text(<< "A" >>) >> ] }

\* The pages the accessors are called on: the field missing, or there with
\* one of the shapes.
AccessorPages ==
    { [ id |-> 1, properties |-> << >> ] }
    \cup { [ id |-> 1, properties |-> (PROP_NOTES :> shape) ] : shape \in PropertyShapes }

AccessorInit ==
    /\ NOTION_TOKEN = Unset
    /\ DATABASE_ID = Unset
    /\ FX_RATE = Num(1)
    /\ UPDATE_ONLY_MISSING = FALSE
    /\ db = << >>
    /\ pageSize = 1
    /\ pc = "accessor"
    /\ exitMsg = << >>
    /\ cursor = None
    /\ pages = << >>
    /\ idx = 0
    /\ ticker = << >>
    /\ price = None
    /\ updated = 0
    /\ skipped = 0
    /\ failed = 0
    /\ clock = 1
    /\ queryLog = << >>
    /\ visitLog = << >>
    /\ providerLog = << >>
    /\ writeLog = << >>
    /\ calc = NoCalc
    /\ probe = NoProbe
    /\ prior = NoPrior

number_call ==
    /\ pc = "accessor"
    /\ \E page \in AccessorPages :
         LET raised == get_prop_number_raises(page, PROP_NOTES)
         IN  probe' = [ called |-> TRUE, fn |-> "get_prop_number", page |-> page,
                        raised |-> raised,
                        number |-> IF raised THEN None
                                   ELSE get_prop_number(page, PROP_NOTES),
                        text |-> << >> ]
    /\ UNCHANGED << prior, config, db, pageSize, pc, exitMsg, locals, clock, queryLog,
                    visitLog, providerLog, writeLog, calc >>

rich_text_call ==
    /\ pc = "accessor"
    /\ \E page \in AccessorPages :
         LET raised == get_prop_rich_text_raises(page, PROP_NOTES)
         IN  probe' = [ called |-> TRUE, fn |-> "get_prop_rich_text", page |-> page,
                        raised |-> raised,
                        number |-> None,
                        text |-> IF raised THEN << >>
                                 ELSE get_prop_rich_text(page, PROP_NOTES) ]
    /\ UNCHANGED << prior, config, db, pageSize, pc, exitMsg, locals, clock, queryLog,
                    visitLog, providerLog, writeLog, calc >>

NextAccessor == number_call \/ rich_text_call

SpecAccessor == AccessorInit /\ [][NextAccessor]_vars

-----------------------------------------------------------------------------
(* The script run twice in succession over the same database, the provider
   and the store answering the second run as they answered the first *)

TwiceInit ==
    /\ Init
    /\ NOTION_TOKEN = "secret"
    /\ DATABASE_ID = "secret"
    /\ FX_RATE = Num(1)
    /\ pageSize = 1

\* The script is started again after a run that reached its [DONE] line.
rerun ==
    /\ pc = "done"
    /\ ~ prior.ran
    /\ prior' = [ ran |-> TRUE, db |-> db, providerLog |-> providerLog, writeLog |-> writeLog ]
    /\ pc' = "require_env"
    /\ cursor' = None
    /\ pages' = << >>
    /\ idx' = 0
    /\ ticker' = << >>
    /\ price' = None
    /\ updated' = 0
    /\ skipped' = 0
    /\ failed' = 0
    /\ queryLog' = << >>
    /\ visitLog' = << >>
    /\ providerLog' = << >>
    /\ writeLog' = << >>
    /\ calc' = NoCalc
    /\ UNCHANGED << config, db, pageSize, exitMsg, clock, probe >>

RequestsOf(log, id) == SelectSeq(log, LAMBDA r : r.id = id)
WritesOf(log, id) == SelectSeq(log, LAMBDA w : w.page_id = id)

\* The provider answers for a record as it did in the run before.
fetch_as_before ==
    /\ fetch
    /\ prior.ran =>
         LET id == pages[idx].id
         IN  RequestsOf(prior.providerLog, id) # << >> =>
               RequestsOf(providerLog', id) = RequestsOf(prior.providerLog, id)

\* The store accepts the write of a record it accepted in the run before.
write_ok_as_before ==
    /\ write_ok
    /\ prior.ran =>
         \A k \in DOMAIN WritesOf(prior.writeLog, pages[idx].id) :
           WritesOf(prior.writeLog, pages[idx].id)[k].ok

\* The store rejects the write of a record it rejected in the run before.
write_error_as_before ==
    /\ write_error
    /\ prior.ran =>
         \A k \in DOMAIN WritesOf(prior.writeLog, pages[idx].id) :
           ~ WritesOf(prior.writeLog, pages[idx].id)[k].ok

NextTwice ==
    \/ require_env
    \/ query_page
    \/ query_raises
    \/ begin_record
    \/ fetch_as_before
    \/ write_ok_as_before
    \/ write_error_as_before
    \/ finish
    \/ rerun

SpecTwice == TwiceInit /\ [][NextTwice]_vars

-----------------------------------------------------------------------------
(* What the histories say about one record *)

\* The text of a property as the store holds it, before any trimming.
RawText(page, prop) ==
    IF prop \notin DOMAIN page.properties THEN << >>
    ELSE LET p == page.properties[prop]
         IN  IF p.type = "rich_text" THEN join_plain_text(p.rich_text)
             ELSE IF p.type = "title" THEN join_plain_text(p.title)
             ELSE << >>

IsBlank(s) == \A i \in DOMAIN s : s[i] \in Whitespace

RequestsFor(id) == { k \in DOMAIN providerLog : providerLog[k].id = id }
WritesFor(id) == { k \in DOMAIN writeLog : writeLog[k].page_id = id }
VisitsOf(id) == { k \in DOMAIN visitLog : visitLog[k].id = id }

Count(outcomes) == Cardinality({ k \in DOMAIN visitLog : visitLog[k].outcome \in outcomes })

\* Each counter is the number of records that ended in its states.
Tally ==
    /\ updated = Count({ "WRITE_OK" })
    /\ skipped = Count({ "SKIP_NO_TICKER", "SKIP_HAS_PRICE" })
    /\ failed = Count({ "PRICE_UNAVAILABLE", "WRITE_ERROR" })

Ids(seq) == [ k \in DOMAIN seq |-> seq[k].id ]

Listed == pc \in { "loop", "fetch", "update", "done" }

MaxOf(S) == CHOOSE k \in S : \A j \in S : j <= k

\* The provider was asked for the record and its last answer was no price.
ProviderFailed(id) ==
    /\ RequestsFor(id) # { }
    /\ providerLog[MaxOf(RequestsFor(id))].answer[1] # "price"

\* The provider's last answer for the record was a price: that price.
ProviderPrice(id) == providerLog[MaxOf(RequestsFor(id))].answer[2]

AcceptedWrites(id) == { k \in WritesFor(id) : writeLog[k].ok }
RejectedWrites(id) == { k \in WritesFor(id) : ~ writeLog[k].ok }

\* The number a page holds in a number property, as the store holds it.
StoredNumber(page, prop) == page.properties[prop].number

Stamp(page) == page.properties[PROP_LAST_UPDATED].date.start

Skips == { "SKIP_NO_TICKER", "SKIP_HAS_PRICE" }

\* The state a visited record ends in, from the record as stored, the
\* configuration and the answers the provider and the store gave for it.
ExpectedOutcome(page) ==
    IF IsBlank(RawText(page, PROP_TICKER)) THEN "SKIP_NO_TICKER"
    ELSE IF UPDATE_ONLY_MISSING /\ StoredNumber(page, PROP_PRICE) # None THEN "SKIP_HAS_PRICE"
    ELSE IF ProviderFailed(page.id) THEN "PRICE_UNAVAILABLE"
    ELSE IF AcceptedWrites(page.id) # { } THEN "WRITE_OK"
    ELSE "WRITE_ERROR"

-----------------------------------------------------------------------------
(* The claims *)

\* C1: a record whose ticker text is empty or whitespace-only is never asked
\* of the price provider and never written; once the loop has passed it, it
\* has ended as SKIP_NO_TICKER and the skipped counter (and no other) counts it.
C1_BlankTickerSkipped ==
    /\ Tally
    /\ \A i \in DOMAIN pages :
         IsBlank(RawText(pages[i], PROP_TICKER)) =>
           /\ RequestsFor(pages[i].id) = { }
           /\ WritesFor(pages[i].id) = { }
           /\ \A k \in VisitsOf(pages[i].id) : visitLog[k].outcome = "SKIP_NO_TICKER"
           /\ (Listed /\ i < idx) => VisitsOf(pages[i].id) # { }

\* A finished run that skipped a whitespace-only ticker and fetched another record.
C1_Witness ==
    /\ pc = "done"
    /\ providerLog # << >>
    /\ \E i \in DOMAIN pages :
         /\ RawText(pages[i], PROP_TICKER) # << >>
         /\ IsBlank(RawText(pages[i], PROP_TICKER))
         /\ VisitsOf(pages[i].id) # { }
         /\ skipped >= 1

\* C2: once the listing has returned, pages holds every record of the store
\* in the store's order, and the loop visits them in that order, each once:
\* the visits so far are a prefix of the store's order, and all of it at the end.
C2_EveryRecordOnceInOrder ==
    Listed =>
      /\ Ids(pages) = Ids(db)
      /\ Len(visitLog) <= Len(db)
      /\ Ids(visitLog) = SubSeq(Ids(db), 1, Len(visitLog))
      /\ pc = "done" => Ids(visitLog) = Ids(db)

\* A finished run over a listing of two pages of results.
C2_Witness ==
    /\ pc = "done"
    /\ Len(queryLog) >= 2
    /\ Len(visitLog) >= 2
    /\ queryLog[2] # None

\* C3: with the mandatory configuration present, the run never ends on an
\* uncaught error, whatever the store and the provider do.
C3_OnlyConfigErrorTerminates ==
    (NOTION_TOKEN \notin { Unset, "" } /\ DATABASE_ID \notin { Unset, "" }) => pc # "raised"

\* C4: a record for which the provider gave no price has ended as
\* PRICE_UNAVAILABLE and is counted as failed, no write was sent for it, the
\* store holds it as it was listed, and the loop has gone past it and
\* reaches every later record.
C4_PriceUnavailable ==
    /\ Tally
    /\ \A i \in DOMAIN pages :
         ProviderFailed(pages[i].id) =>
           /\ VisitsOf(pages[i].id) # { }
           /\ \A k \in VisitsOf(pages[i].id) : visitLog[k].outcome = "PRICE_UNAVAILABLE"
           /\ WritesFor(pages[i].id) = { }
           /\ \A j \in DOMAIN db : db[j].id = pages[i].id => db[j] = pages[i]
           /\ Listed /\ i < idx
           /\ pc = "done" => \A j \in DOMAIN pages : VisitsOf(pages[j].id) # { }

\* A finished run in which the provider raised for one record and the next
\* record was written.
C4_Witness ==
    /\ pc = "done"
    /\ \E i \in DOMAIN pages :
         /\ ProviderFailed(pages[i].id)
         /\ providerLog[MaxOf(RequestsFor(pages[i].id))].answer[1] = "raise"
         /\ i < Len(pages)
         /\ AcceptedWrites(pages[i + 1].id) # { }

\* C5: a record whose write the store rejected has ended as WRITE_ERROR,
\* counted as failed and not as updated, after that one attempt; the run is
\* not aborted by it; and every visited record ends in the state its own
\* fields and answers determine, whatever happened to the records before it.
C5_WriteErrorContained ==
    /\ Tally
    /\ pc = "raised" => (visitLog = << >> /\ writeLog = << >>)
    /\ pc = "done" => Len(visitLog) = Len(pages)
    /\ \A i \in DOMAIN pages :
         /\ RejectedWrites(pages[i].id) # { } =>
              /\ Cardinality(WritesFor(pages[i].id)) = 1
              /\ VisitsOf(pages[i].id) # { }
              /\ Listed /\ i < idx
         /\ \A k \in VisitsOf(pages[i].id) : visitLog[k].outcome = ExpectedOutcome(pages[i])

\* A finished run in which the first write was rejected and the second accepted.
C5_Witness ==
    /\ pc = "done"
    /\ Len(writeLog) = 2
    /\ ~ writeLog[1].ok
    /\ writeLog[2].ok
    /\ updated = 1
    /\ failed = 1

\* C6: with UPDATE_ONLY_MISSING set, a record that holds a price is never
\* asked of the provider and never written, and ends in a skip; with it
\* unset, such a record with a ticker is asked of the provider and, when
\* the provider gives a price, a write is sent for it.
C6_MissingOnly ==
    /\ Tally
    /\ \A i \in DOMAIN pages :
         StoredNumber(pages[i], PROP_PRICE) # None =>
           /\ UPDATE_ONLY_MISSING =>
                /\ RequestsFor(pages[i].id) = { }
                /\ WritesFor(pages[i].id) = { }
                /\ \A k \in VisitsOf(pages[i].id) : visitLog[k].outcome \in Skips
                /\ (Listed /\ i < idx) => VisitsOf(pages[i].id) # { }
           /\ ( /\ ~ UPDATE_ONLY_MISSING
                /\ ~ IsBlank(RawText(pages[i], PROP_TICKER))
                /\ Listed /\ i < idx ) =>
                /\ RequestsFor(pages[i].id) # { }
                /\ ~ ProviderFailed(pages[i].id) => WritesFor(pages[i].id) # { }

\* A finished missing-only run that skipped a priced record with a ticker
\* and wrote a record without a price.
C6_Witness ==
    /\ pc = "done"
    /\ UPDATE_ONLY_MISSING
    /\ updated >= 1
    /\ \E k \in DOMAIN visitLog : visitLog[k].outcome = "SKIP_HAS_PRICE"

\* The other half of C6: a finished run with the mode off that wrote a
\* record already holding a price.
C6_WitnessOff ==
    /\ pc = "done"
    /\ ~ UPDATE_ONLY_MISSING
    /\ \E i \in DOMAIN pages :
         /\ StoredNumber(pages[i], PROP_PRICE) # None
         /\ AcceptedWrites(pages[i].id) # { }

\* C7: a record's Last Updated differs from the one it was listed with
\* exactly when the store accepted a write for it in this run; it then
\* carries the time, price, value and percentage of that write, and
\* otherwise every field it was listed with.
C7_StampIffWritten ==
    /\ ~ Listed => writeLog = << >>
    /\ Listed =>
         \A i \in DOMAIN db :
           LET ok == AcceptedWrites(db[i].id)
           IN  /\ (Stamp(db[i]) # Stamp(pages[i])) <=> (ok # { })
               /\ ok = { } => db[i] = pages[i]
               /\ ok # { } =>
                    LET w == writeLog[MaxOf(ok)].props
                    IN  /\ Stamp(db[i]) = w[PROP_LAST_UPDATED].date.start
                        /\ StoredNumber(db[i], PROP_PRICE) = w[PROP_PRICE].number
                        /\ StoredNumber(db[i], PROP_VALUE) = w[PROP_VALUE].number
                        /\ StoredNumber(db[i], PROP_PL_PCT) = w[PROP_PL_PCT].number

\* A finished run with one accepted write, whose record carries a new time
\* and price, and one rejected write, whose record is as it was listed.
C7_Witness ==
    /\ pc = "done"
    /\ \E i, j \in DOMAIN db :
         /\ AcceptedWrites(db[i].id) # { }
         /\ Stamp(db[i]) # Stamp(pages[i])
         /\ StoredNumber(db[i], PROP_PRICE) # StoredNumber(pages[i], PROP_PRICE)
         /\ RejectedWrites(db[j].id) # { }
         /\ db[j] = pages[j]

MissingNames ==
    { n \in { "NOTION_TOKEN", "NOTION_DATABASE_ID" } :
        \/ n = "NOTION_TOKEN" /\ NOTION_TOKEN \in { Unset, "" }
        \/ n = "NOTION_DATABASE_ID" /\ DATABASE_ID \in { Unset, "" } }

\* C8: when the token or the database id is missing the run goes from
\* require_env to the exit and nowhere else, no query, provider request or
\* write is ever issued, and the exit message names the missing settings,
\* each once, and no other.
C8_MissingConfigAborts ==
    /\ MissingNames # { } =>
         /\ pc \in { "require_env", "exit" }
         /\ queryLog = << >>
         /\ providerLog = << >>
         /\ writeLog = << >>
    /\ pc = "exit" =>
         /\ MissingNames # { }
         /\ { exitMsg[k] : k \in DOMAIN exitMsg } = MissingNames
         /\ Len(exitMsg) = Cardinality(MissingNames)

\* The run has exited naming only the database id, over a database with records.
C8_Witness ==
    /\ pc = "exit"
    /\ exitMsg = << "NOTION_DATABASE_ID" >>
    /\ NOTION_TOKEN = "secret"
    /\ db # << >>

\* C9 as stated: every price sent to the store, and the price given to
\* compute_metrics, is the provider's price times FX_RATE.
C9_PriceScaledByFxRate ==
    /\ \A k \in DOMAIN writeLog :
         writeLog[k].props[PROP_PRICE].number
           = FMul(ProviderPrice(writeLog[k].page_id), FX_RATE)
    /\ calc.called =>
         calc.price = FMul(ProviderPrice(writeLog[Len(writeLog)].page_id), FX_RATE)

\* C9 amended: every price sent to the store, and the price given to
\* compute_metrics, is the provider's price itself, whatever FX_RATE is.
C9_PriceNotScaled ==
    /\ \A k \in DOMAIN writeLog :
         writeLog[k].props[PROP_PRICE].number = ProviderPrice(writeLog[k].page_id)
    /\ calc.called =>
         /\ writeLog # << >>
         /\ calc.price = ProviderPrice(writeLog[Len(writeLog)].page_id)

\* A write accepted under FX_RATE = 2 that carries the provider's price.
C9_Witness ==
    /\ FX_RATE = Num(2)
    /\ \E k \in DOMAIN writeLog :
         /\ writeLog[k].ok
         /\ writeLog[k].props[PROP_PRICE].number = Num(110)
         /\ providerLog[MaxOf(RequestsFor(writeLog[k].page_id))].answer = << "price", Num(110) >>

\* pl_pct = (price / avg_cost - 1) * 100 over the rationals, without division:
\* n/d = 100 * (pn*ad - an*pd) / (pd*an).
IsPctOf(pct, avg_cost, p) ==
    /\ pct[2] > 0
    /\ pct[1] * (p[2] * avg_cost[1]) = pct[2] * 100 * (p[1] * avg_cost[2] - avg_cost[1] * p[2])

\* C10 as stated: the percentage is defined exactly when avg_cost is present
\* and non-zero and price is present, and is then (price / avg_cost - 1) * 100.
C10_PctIffAvgCostAndPrice ==
    calc.called =>
      /\ (calc.pl_pct # None) <=>
           (calc.avg_cost # None /\ calc.avg_cost[1] # 0 /\ calc.price # None)
      /\ calc.pl_pct # None => IsPctOf(calc.pl_pct, calc.avg_cost, calc.price)

\* C10 amended: the percentage is defined exactly when shares is present,
\* avg_cost is present and non-zero and price is present, and is then
\* (price / avg_cost - 1) * 100; it is absent when avg_cost is zero or absent.
C10_PctIffSharesAvgCostAndPrice ==
    calc.called =>
      /\ (calc.pl_pct # None) <=>
           /\ calc.shares # None
           /\ calc.avg_cost # None /\ calc.avg_cost[1] # 0
           /\ calc.price # None
      /\ calc.pl_pct # None => IsPctOf(calc.pl_pct, calc.avg_cost, calc.price)
      /\ (calc.avg_cost = None \/ calc.avg_cost = Num(0)) => calc.pl_pct = None

\* compute_metrics(5, 100, 110) has returned a percentage of 10.
C10_Witness ==
    /\ calc.called
    /\ calc.shares = Num(5)
    /\ calc.avg_cost = Num(100)
    /\ calc.price = Num(110)
    /\ calc.pl_pct = Num(10)

\* value = shares * price over the rationals, without the model's product:
\* n/d = (sn*pn) / (sd*pd).
IsProductOf(value, shares, p) ==
    /\ value[2] > 0
    /\ value[1] * (shares[2] * p[2]) = value[2] * (shares[1] * p[1])

\* C11: the value compute_metrics returns is defined exactly when shares and
\* price are both present, whatever avg_cost is, and is then shares * price:
\* 1100 for shares 10 and price 110, 250 for shares 5, avg_cost 0, price 50.
C11_ValueIffSharesAndPrice ==
    calc.called =>
      /\ (calc.value # None) <=> (calc.shares # None /\ calc.price # None)
      /\ calc.value # None => IsProductOf(calc.value, calc.shares, calc.price)
      /\ (calc.shares = Num(10) /\ calc.price = Num(110)) => calc.value = Num(1100)
      /\ (calc.shares = Num(5) /\ calc.price = Num(50)) => calc.value = Num(250)

\* compute_metrics(5, 0, 50) has returned the value 250 and no percentage.
C11_Witness ==
    /\ calc.called
    /\ calc.shares = Num(5)
    /\ calc.avg_cost = Num(0)
    /\ calc.price = Num(50)
    /\ calc.value = Num(250)
    /\ calc.pl_pct = None

OutputFields == { PROP_PRICE, PROP_VALUE, PROP_PL_PCT, PROP_LAST_UPDATED }

\* Two states of a page that differ at most in the four output fields.
SameButOutputs(a, b) ==
    /\ a.id = b.id
    /\ DOMAIN a.properties = DOMAIN b.properties
    /\ \A k \in DOMAIN a.properties \ OutputFields : a.properties[k] = b.properties[k]

SameRecordsButOutputs(d, e) ==
    /\ Len(d) = Len(e)
    /\ \A i \in DOMAIN d : SameButOutputs(d[i], e[i])

\* C12: every pages.update names exactly Price, Value, P/L % and Last
\* Updated; no step of the run adds, removes or reorders a record of the
\* store or changes any other field of one; so the store after the listing,
\* and at the end of the run, holds the records it was listed with, equal
\* in every field but those four.
C12_OnlyOutputFieldsChange ==
    /\ [](/\ \A k \in DOMAIN writeLog : DOMAIN writeLog[k].props = OutputFields
          /\ Listed => SameRecordsButOutputs(db, pages))
    /\ [][SameRecordsButOutputs(db', db)]_vars

\* A finished run that changed a record of the store.
C12_Witness ==
    /\ pc = "done"
    /\ \E i \in DOMAIN db :
         /\ db[i] # pages[i]
         /\ SameButOutputs(db[i], pages[i])
         /\ AcceptedWrites(db[i].id) # { }

\* C13: when a second run, given the answers of the first by the provider
\* and the store, has finished, every record holds the price, value and
\* percentage it held after the first run, and every other field but Last
\* Updated too.
C13_SecondRunSameOutputs ==
    (prior.ran /\ pc = "done") =>
      /\ Len(db) = Len(prior.db)
      /\ \A i \in DOMAIN db :
           /\ db[i].id = prior.db[i].id
           /\ \A k \in DOMAIN db[i].properties \ { PROP_LAST_UPDATED } :
                db[i].properties[k] = prior.db[i].properties[k]
           /\ StoredNumber(db[i], PROP_PRICE) = StoredNumber(prior.db[i], PROP_PRICE)
           /\ StoredNumber(db[i], PROP_VALUE) = StoredNumber(prior.db[i], PROP_VALUE)
           /\ StoredNumber(db[i], PROP_PL_PCT) = StoredNumber(prior.db[i], PROP_PL_PCT)

\* A finished second run that wrote again a record the first run wrote: the
\* record carries a later time and the price and percentage of the first run.
C13_Witness ==
    /\ prior.ran
    /\ pc = "done"
    /\ \E i \in DOMAIN db :
         /\ AcceptedWrites(db[i].id) # { }
         /\ \E k \in DOMAIN prior.writeLog :
              prior.writeLog[k].ok /\ prior.writeLog[k].page_id = db[i].id
         /\ Stamp(db[i]) > Stamp(prior.db[i])
         /\ StoredNumber(db[i], PROP_PRICE) = Num(110)
         /\ StoredNumber(db[i], PROP_PL_PCT) = Num(10)

\* What the field holds when it is a number property with a finite value,
\* and nothing otherwise.
FiniteNumberOf(page, prop) ==
    IF prop \notin DOMAIN page.properties THEN None
    ELSE LET p == page.properties[prop]
         IN  IF p = None \/ "type" \notin DOMAIN p THEN None
             ELSE IF p.type # "number" \/ "number" \notin DOMAIN p THEN None
             ELSE IF IsFinite(p.number) THEN p.number
             ELSE None

\* C14: get_prop_number returns the field's value when the field is a number
\* property holding a finite number, and absent in every other case: field
\* missing, not of number type, or holding null, NaN or an infinity.
C14_NumberReadAbsentUnlessFinite ==
    (probe.called /\ probe.fn = "get_prop_number" /\ ~ probe.raised) =>
      probe.number = FiniteNumberOf(probe.page, PROP_NOTES)

\* C15: no call of get_prop_number or get_prop_rich_text raises, whatever the
\* field holds: missing, null payload, another type, no stated type.
C15_AccessorsNeverRaise == probe.called => ~ probe.raised

\* The response the store gave to the k-th query of the listing.
Response(k) == QueryResponse(db, pageSize, queryLog[k])

\* The results of the first n responses, one after another.
RECURSIVE Received(_)
Received(n) == IF n = 0 THEN << >> ELSE Received(n - 1) \o Response(n).results

\* C16: the first query of the listing carries no cursor; every later query
\* follows a response with has_more true and carries that response's
\* next_cursor; while the listing goes on its pages are the results received
\* so far; once it has returned, the last response had has_more false, the
\* pages are all the results received, and no further query is sent.
C16_CursorProtocol ==
    /\ [](/\ queryLog # << >> => queryLog[1] = None
          /\ \A k \in 2..Len(queryLog) :
               /\ Response(k - 1).has_more
               /\ queryLog[k] = Response(k - 1).next_cursor
          /\ pc = "query" =>
               /\ pages = Received(Len(queryLog))
               /\ queryLog # << >> =>
                    /\ Response(Len(queryLog)).has_more
                    /\ cursor = Response(Len(queryLog)).next_cursor
          /\ pc = "raised" => pages = Received(Len(queryLog) - 1)
          /\ Listed =>
               /\ queryLog # << >>
               /\ ~ Response(Len(queryLog)).has_more
               /\ Ids(pages) = Ids(Received(Len(queryLog)))
               /\ writeLog = << >> => pages = Received(Len(queryLog)))
    /\ [][Listed => queryLog' = queryLog]_vars

\* A listing of two queries, the second with the cursor of the first
\* response, that returned both records before any was written.
C16_Witness ==
    /\ pc = "loop"
    /\ queryLog = << None, << 2 >> >>
    /\ Len(pages) = 2
    /\ pages = db
    /\ writeLog = << >>

Outcomes ==
    { "SKIP_NO_TICKER", "SKIP_HAS_PRICE", "PRICE_UNAVAILABLE", "WRITE_OK", "WRITE_ERROR" }

Counted == updated + skipped + failed

\* C17: every record that has been processed ended in exactly one of the
\* five states and added one to exactly one counter, the counter of that
\* state; so the counters add up to the number of records processed so far
\* at every point of the loop, and to the number of records listed at the end.
C17_OneOutcomeOneCounter ==
    /\ [](/\ \A k \in DOMAIN visitLog : visitLog[k].outcome \in Outcomes
          /\ \A i \in DOMAIN pages : Cardinality(VisitsOf(pages[i].id)) <= 1
          /\ updated = Count({ "WRITE_OK" })
          /\ skipped = Count({ "SKIP_NO_TICKER", "SKIP_HAS_PRICE" })
          /\ failed = Count({ "PRICE_UNAVAILABLE", "WRITE_ERROR" })
          /\ Counted = Len(visitLog)
          /\ Listed => Counted = idx - 1
          /\ pc = "done" => (Counted = Len(pages) /\ Len(pages) = Len(db)))
    /\ [][/\ Counted' - Counted = Len(visitLog') - Len(visitLog)
          /\ Counted' - Counted \in { 0, 1 }
          /\ updated' >= updated
          /\ skipped' >= skipped
          /\ failed' >= failed]_vars

\* A finished run of two records, one ended by a rejected write and counted
\* as failed, the other skipped.
C17_Witness ==
    /\ pc = "done"
    /\ Len(pages) = 2
    /\ visitLog[1].outcome = "WRITE_ERROR"
    /\ visitLog[2].outcome \in Skips
    /\ updated = 0
    /\ skipped = 1
    /\ failed = 1

\* The record at position i of the listing has reached its terminal state.
Ended(i) == VisitsOf(pages[i].id) # { }

\* The requests and writes a step adds to the histories.
NewRequests == SubSeq(providerLog', Len(providerLog) + 1, Len(providerLog'))
NewWrites == SubSeq(writeLog', Len(writeLog) + 1, Len(writeLog'))

\* C18: a price request or a write is sent only for the record the loop is
\* at, after every record before it has ended and before it has ended
\* itself; so at any point a record the provider was asked for or a write
\* was sent for has only ended records before it, a record whose stored
\* fields differ from the listed ones has ended, and a record not yet
\* reached is stored as it was listed.
C18_OneRecordAtATime ==
    /\ [](/\ ~ Listed => (providerLog = << >> /\ writeLog = << >>)
          /\ Listed =>
               \A j \in DOMAIN pages :
                 /\ (RequestsFor(pages[j].id) # { } \/ WritesFor(pages[j].id) # { }) =>
                      /\ j <= idx
                      /\ \A i \in 1..(j - 1) : Ended(i)
                 /\ Ended(j) <=> j < idx
                 /\ db[j] # pages[j] => (j < idx /\ Ended(j))
                 /\ j > idx => db[j] = pages[j])
    /\ [][/\ \A k \in DOMAIN NewRequests :
               /\ NewRequests[k].id = pages[idx].id
               /\ ~ Ended(idx)
               /\ \A i \in 1..(idx - 1) : Ended(i)
          /\ \A k \in DOMAIN NewWrites :
               /\ NewWrites[k].page_id = pages[idx].id
               /\ ~ Ended(idx)
               /\ \A i \in 1..(idx - 1) : Ended(i)]_vars

\* The run between two records: the first is written and has ended, the
\* second has a ticker, is about to be asked of the provider and is stored
\* as it was listed.
C18_Witness ==
    /\ pc = "fetch"
    /\ idx = 2
    /\ db[1] # pages[1]
    /\ Ended(1)
    /\ ~ Ended(2)
    /\ db[2] = pages[2]
    /\ RequestsFor(pages[2].id) = { }

\* C19 as stated: no ticker is requested of the provider twice in one run.
C19_OncePerTicker ==
    \A k, l \in DOMAIN providerLog :
      providerLog[k].ticker = providerLog[l].ticker => k = l

\* C19: the provider is asked once for each record that is not skipped, under
\* the record's stripped ticker: one fast_info lookup, followed by one
\* history lookup exactly when fast_info carried no usable price.  Skipped
\* records are not asked for; records with the same ticker are each asked for.
C19_OneFetchPerRecord ==
    /\ \A k \in DOMAIN providerLog : \E i \in DOMAIN pages : providerLog[k].id = pages[i].id
    /\ \A i \in DOMAIN pages :
         LET R == RequestsOf(providerLog, pages[i].id)
         IN  /\ Len(R) <= 2
             /\ \A k \in DOMAIN R : R[k].ticker = get_prop_rich_text(pages[i], PROP_TICKER)
             /\ Len(R) >= 1 => R[1].via = "fast_info"
             /\ Len(R) = 2 <=> (Len(R) >= 1 /\ R[1].answer[1] = "none")
             /\ Len(R) = 2 => R[2].via = "history"
             /\ \A k \in VisitsOf(pages[i].id) :
                  (visitLog[k].outcome \in Skips) <=> (R = << >>)

\* A finished run over two records with the same ticker: the first was asked
\* for by fast_info and then history, the second by fast_info again.
C19_Witness ==
    /\ pc = "done"
    /\ Len(providerLog) = 3
    /\ providerLog[1].id = 1 /\ providerLog[1].via = "fast_info"
    /\ providerLog[2].id = 1 /\ providerLog[2].via = "history"
    /\ providerLog[3].id = 2 /\ providerLog[3].via = "fast_info"
    /\ providerLog[3].ticker = providerLog[1].ticker

Processing == providerLog # << >> \/ writeLog # << >> \/ visitLog # << >>

\* C20: the provider is asked and the store is written only after the
\* listing has received a response with has_more false and holds every
\* record; while the listing goes on, and when it has failed on any of its
\* queries, no request was made and no write sent, and the store is as it was.
C20_ListingBeforeProcessing ==
    /\ [](/\ Processing =>
               /\ queryLog # << >>
               /\ ~ Response(Len(queryLog)).has_more
               /\ Len(pages) = Len(db)
               /\ pc \notin { "require_env", "exit", "query", "raised" }
          /\ pc \in { "query", "raised" } => (~ Processing /\ calc = NoCalc))
    /\ [][pc' \in { "require_env", "exit", "query", "raised" } => db' = db]_vars

\* A listing that received its first page of results and failed on the
\* second query: nothing was asked of the provider and nothing written.
C20_Witness ==
    /\ pc = "raised"
    /\ Len(queryLog) = 2
    /\ Len(pages) = 1
    /\ Len(db) = 2
    /\ ~ Processing

=============================================================================
